---- MODULE Spec2Model ----
(***************************************************************************)
(* Model of the SAM_HQ flow of DetectSegPlatform                          *)
(* (work_flow/flows/sam_hq.py): the embedding cache, the foreground        *)
(* predict_shapes path, unload, and the background preload worker.         *)
(***************************************************************************)
EXTENDS Integers, Sequences, FiniteSets, TLC

(* ------------------------------------------------------------------ *)
(* Program constants                                                    *)
(* ------------------------------------------------------------------ *)

\* self.cache_size = 10
cache_size == 10

\* self.preloaded_size = self.cache_size - 3
preloaded_size == cache_size - 3

\* self.image_embedding_cache = LRUCache(self.cache_size)
CacheCapacity_offByOne == cache_size + 1

CacheCapacity == cache_size

\* Python None as a filename (predict_shapes(cv_image, filename=None))
NoFilename == 0

\* Python None as an image (cv_image is None)
NoImage == 0

\* Python None as a cache value / an embedding not yet computed
NoEmbedding == <<>>

(* ------------------------------------------------------------------ *)
(* Bounds of the model and the inputs drawn from them                   *)
(* ------------------------------------------------------------------ *)

\* length of the longest next_files list handed to on_next_files_changed
MaxListLen == 9

\* files beyond the preload budget the user steps through while a preload
\* may be running
NumFgOnly == 1

\* files beyond the preload budget the user steps through in the runs that
\* fill the cache
NumFgEvict == 11

Min(a, b) == IF a <= b THEN a ELSE b

\* the first n files after the preload budget: opened by the foreground,
\* never inserted by the worker
FgOnlyFiles(n) == (preloaded_size + 1)..(preloaded_size + n)

\* a file that load_image_from_filename cannot read (returns None)
UnloadableFile == -1

\* a file whose image makes the encoder raise
CorruptFile == -2

\* an image the caller passes that is not the content of the named file
AltImage == -3

\* next_files lists: one longer than the preload budget, one with a
\* duplicate, an unreadable file and a file the encoder fails on, and a
\* short one
LongList == [i \in 1..MaxListLen |-> i]

\* a file both the foreground and the preload worker touch: the first listed
SharedFile == LongList[1]

FaultyList == <<SharedFile, SharedFile, UnloadableFile, 2, CorruptFile, 3>>

ShortList == <<SharedFile, 2>>

NextFilesInputs == {LongList, FaultyList}

\* marks handed to set_auto_labeling_marks: one point prompt
MarksInputs == {<<"point">>}

(* ------------------------------------------------------------------ *)
(* LRUCache (flows/__init__ import; ordered map, oldest entry first)    *)
(* ------------------------------------------------------------------ *)

Keys(c) == {c[i][1] : i \in DOMAIN c}

IndexOf(c, k) == CHOOSE i \in DOMAIN c : c[i][1] = k

RemoveAt(c, i) == SubSeq(c, 1, i - 1) \o SubSeq(c, i + 1, Len(c))

\* get(key): the value, moved to the most-recently-used end; or None
LRUGet(c, k) ==
    IF k \in Keys(c)
    THEN LET i == IndexOf(c, k)
         IN  [cache |-> Append(RemoveAt(c, i), c[i]), value |-> c[i][2]]
    ELSE [cache |-> c, value |-> NoEmbedding]

\* put(key, value): insert or overwrite at the most-recently-used end, then
\* evict the least-recently-used entry when over capacity
LRUPut(c, k, v) ==
    LET without == IF k \in Keys(c) THEN RemoveAt(c, IndexOf(c, k)) ELSE c
        appended == Append(without, <<k, v>>)
    IN  IF Len(appended) > CacheCapacity THEN Tail(appended) ELSE appended

\* find(key): membership, recency untouched
LRUFind(c, k) == k \in Keys(c)

(* ------------------------------------------------------------------ *)
(* Opaque collaborators                                                 *)
(* ------------------------------------------------------------------ *)

\* Model.load_image_from_filename: the file's image, or None
LoadImage(f) == IF f = UnloadableFile THEN NoImage ELSE f

\* self.model.encode(cv_image) raises on this image
EncodeRaises(img) == img = CorruptFile

\* self.model.encode(cv_image): the embedding computed from that image
Encode(img) == <<img>>

(* ------------------------------------------------------------------ *)
(* State                                                                *)
(* ------------------------------------------------------------------ *)

VARIABLES
    cache,                \* self.image_embedding_cache
    marks,                \* self.marks
    stop_inference,       \* self.stop_inference
    pre_inference_thread, \* self.pre_inference_thread is not None
    unload_raised,        \* the last unload call ended in an exception
    fpc,                  \* position of the foreground in predict_shapes
    filename,             \* predict_shapes argument
    cv_image,             \* predict_shapes argument
    image_embedding,      \* predict_shapes local
    result,               \* outcome of the last foreground call
    wpc,                  \* position of the preload worker thread
    next_files,           \* argument the thread was started with
    files,                \* preload_worker local: files[: preloaded_size]
    widx,                 \* index of the loop over files
    wimage,               \* preload_worker local cv_image
    wemb,                 \* preload_worker local image_embedding
    wputs,                \* insertions made by the worker
    opened,               \* how many files past the preload budget the user opened
    recency,              \* history: <<key, kind of its last get/put, value of
                          \* its last put>> of the keys present, oldest touch first
    evicted,              \* history: the key the last cache call removed
    logged,               \* which call of the try block the last predict_shapes
                          \* logged a warning for
    job,                  \* one run of the prompt and mask functions of
                          \* the single-stage models, apart from the cache
    run                   \* history, kept only where a specification turns it
                          \* on: the most recently used keys when the preload
                          \* run started, and the foreground's cache calls since

vars == <<cache, marks, stop_inference, pre_inference_thread, unload_raised,
          fpc, filename, cv_image, image_embedding, result,
          wpc, next_files, files, widx, wimage, wemb, wputs, opened,
          recency, evicted, logged, job, run>>

fgVars == <<fpc, filename, cv_image, image_embedding, result, logged>>

wVars == <<wpc, next_files, files, widx, wimage, wemb, wputs>>

\* no run of the prompt and mask functions is in progress
NoJob == [stage |-> "none"]

\* __init__
InitModel ==
    /\ cache = <<>>
    /\ marks = <<>>
    /\ stop_inference = FALSE
    /\ pre_inference_thread = FALSE
    /\ unload_raised = FALSE
    /\ fpc = "idle"
    /\ filename = NoFilename
    /\ cv_image = NoImage
    /\ image_embedding = NoEmbedding
    /\ result = "none"
    /\ wpc = "none"
    /\ next_files = <<>>
    /\ files = <<>>
    /\ widx = 0
    /\ wimage = NoImage
    /\ wemb = NoEmbedding
    /\ wputs = 0
    /\ opened = 0
    /\ recency = <<>>
    /\ evicted = NoFilename
    /\ logged = "none"

\* the history of the preload run is not kept
NoRun == [tracked |-> FALSE]

Init ==
    /\ InitModel
    /\ job = NoJob
    /\ run = NoRun

\* the foreground is between calls
FgIdle == fpc \in {"idle", "returned"}

\* the thread object is alive
WorkerRunning == wpc \in {"start", "find", "load", "check", "encode", "put"}

(* ------------------------------------------------------------------ *)
(* History of the cache calls, kept apart from the cache                *)
(* ------------------------------------------------------------------ *)

Touched(rec) == {rec[i][1] : i \in DOMAIN rec}

EntryOf(rec, k) == rec[CHOOSE i \in DOMAIN rec : rec[i][1] = k]

\* the history after dropping key k
Forget(rec, k) == SelectSeq(rec, LAMBDA e : e[1] # k)

\* the history restricted to the keys the cache c still holds
Present(rec, c) == SelectSeq(rec, LAMBDA e : e[1] \in Keys(c))

\* a get of k that found an entry: k becomes the latest touch
NoteGet(rec, k) ==
    IF k \in Touched(rec)
    THEN Append(Forget(rec, k), <<k, "get", EntryOf(rec, k)[3]>>)
    ELSE rec

\* a put of (k, v): k becomes the latest touch, v its last put value
NotePut(rec, k, v) == Append(Forget(rec, k), <<k, "put", v>>)

\* the key a cache call removed, None when it removed nothing
NoteEvicted(c, c2) ==
    IF Keys(c) \ Keys(c2) = {} THEN NoFilename
    ELSE CHOOSE k \in Keys(c) \ Keys(c2) : TRUE

\* the keys of the n latest touches
MostRecent(rec, n) ==
    {rec[i][1] : i \in {j \in DOMAIN rec : j > Len(rec) - n}}

\* a preload run starts
NoteRunStart(r, rec) ==
    IF r.tracked
    THEN [tracked |-> TRUE, started |-> TRUE, mru |-> MostRecent(rec, 3),
          fgGet |-> FALSE, fgPut |-> FALSE]
    ELSE r

\* the foreground's get found an entry
NoteFgGet(r, hit) ==
    IF r.tracked /\ r.started /\ hit THEN [r EXCEPT !.fgGet = TRUE] ELSE r

\* the foreground put an entry
NoteFgPut(r) ==
    IF r.tracked /\ r.started THEN [r EXCEPT !.fgPut = TRUE] ELSE r

(* ------------------------------------------------------------------ *)
(* Call sites of the cache and of the thread API                        *)
(* ------------------------------------------------------------------ *)

\* the value of key k in cache c
ValueOf(c, k) == c[IndexOf(c, k)][2]

\* a lookup that reads the entry without the cache's get
PredictGet_peek(c, k) ==
    [cache |-> c, value |-> IF k \in Keys(c) THEN ValueOf(c, k) ELSE NoEmbedding]

\* cached_data = self.image_embedding_cache.get(filename)
PredictGet(c, k) == LRUGet(c, k)

\* a put that leaves the filename out
PredictPut_noKey(c, k, v) == LRUPut(c, NoFilename, v)

\* a put that keeps an entry already there
PredictPut_keepExisting(c, k, v) == IF k \in Keys(c) THEN c ELSE LRUPut(c, k, v)

\* self.image_embedding_cache.put(filename, image_embedding)  (predict_shapes)
PredictPut(c, k, v) == LRUPut(c, k, v)

\* an existence check made with get
WorkerFind_viaGet(c, k) ==
    [cache |-> LRUGet(c, k).cache, found |-> LRUGet(c, k).value # NoEmbedding]

\* self.image_embedding_cache.find(filename)
WorkerFind(c, k) == [cache |-> c, found |-> LRUFind(c, k)]

\* self.image_embedding_cache.put(filename, image_embedding)  (preload_worker)
WorkerPut(c, k, v) == LRUPut(c, k, v)

\* a slice one file too long
Truncate_offByOne(fs) == SubSeq(fs, 1, Min(preloaded_size + 1, Len(fs)))

\* files = files[: self.preloaded_size]
Truncate(fs) == SubSeq(fs, 1, Min(preloaded_size, Len(fs)))

\* threading.Thread has is_alive(), not isRunning(): the attribute lookup
\* in on_next_files_changed raises AttributeError
ThreadHasIsRunning == FALSE

\* threading.Thread has no quit(): the call in unload raises AttributeError
ThreadHasQuit == FALSE

(* ------------------------------------------------------------------ *)
(* Foreground: set_auto_labeling_marks, predict_shapes                  *)
(* ------------------------------------------------------------------ *)

set_auto_labeling_marks(m) ==
    /\ FgIdle
    /\ marks' = m
    /\ UNCHANGED <<cache, recency, evicted, stop_inference, pre_inference_thread, unload_raised>>
    /\ UNCHANGED fgVars
    /\ UNCHANGED wVars
    /\ UNCHANGED <<opened, job, run>>

\* the call is over: its arguments and locals are gone
Return(r) ==
    /\ fpc' = "returned"
    /\ result' = r
    /\ filename' = NoFilename
    /\ cv_image' = NoImage
    /\ image_embedding' = NoEmbedding
    /\ logged' = "none"

\* return AutoLabelingResult([], replace=False)
ReturnEmpty == Return("empty")

\* the value an exception inside the try block leaves the caller with, were it
\* to escape predict_shapes
OnException_propagates == "exception"

\* except Exception: the warning is logged and an empty result is returned
OnException == "empty"

\* the except block, entered from the call named by where
Caught(where) ==
    /\ fpc' = "returned"
    /\ result' = OnException
    /\ filename' = NoFilename
    /\ cv_image' = NoImage
    /\ image_embedding' = NoEmbedding
    /\ logged' = where

\* the lookup counts as a hit whatever it returned
IsHit_always(v) == TRUE

\* if cached_data is not None
IsHit(v) == v # NoEmbedding

\* the worker would hold the cache while it loads and encodes
WorkerHoldsCache_acrossEncode == wpc \in {"load", "check", "encode"}

\* load_image_from_filename and encode are called outside every cache call:
\* between its find and its put the worker holds nothing the foreground needs
WorkerHoldsCache == FALSE

\* entry, the early return, and the cache lookup
predict_call(img, f) ==
    /\ FgIdle
    /\ ~WorkerHoldsCache
    /\ IF img = NoImage \/ marks = <<>>
       THEN /\ ReturnEmpty
            /\ UNCHANGED <<cache, recency, evicted, run>>
       ELSE LET got == PredictGet(cache, f)
            IN  /\ cv_image' = img
                /\ filename' = f
                /\ cache' = got.cache
                /\ recency' = Present(NoteGet(recency, f), got.cache)
                /\ evicted' = NoteEvicted(cache, got.cache)
                /\ run' = NoteFgGet(run, f \in Keys(cache))
                /\ image_embedding' = got.value
                /\ result' = "none"
                /\ logged' = "none"
                /\ fpc' = IF IsHit(got.value) THEN "check2" ELSE "check1"
    /\ UNCHANGED job
    /\ opened' = IF f - preloaded_size > opened
                 THEN f - preloaded_size ELSE opened
    /\ UNCHANGED <<marks, stop_inference, pre_inference_thread, unload_raised>>
    /\ UNCHANGED wVars

\* the flag is never seen set
StopSeen_never(flag) == FALSE

\* if self.stop_inference
StopSeen(flag) == flag

\* miss: if self.stop_inference: return ...
predict_check_miss ==
    /\ fpc = "check1"
    /\ IF StopSeen(stop_inference)
       THEN ReturnEmpty
       ELSE /\ fpc' = "encode"
            /\ UNCHANGED <<filename, cv_image, image_embedding, result, logged>>
    /\ UNCHANGED <<cache, recency, evicted, marks, stop_inference, pre_inference_thread, unload_raised>>
    /\ UNCHANGED wVars
    /\ UNCHANGED <<opened, job, run>>

\* image_embedding = self.model.encode(cv_image); an exception is caught
predict_encode ==
    /\ fpc = "encode"
    /\ IF EncodeRaises(cv_image)
       THEN Caught("encode")
       ELSE /\ image_embedding' = Encode(cv_image)
            /\ fpc' = "put"
            /\ UNCHANGED <<filename, cv_image, result, logged>>
    /\ UNCHANGED <<cache, recency, evicted, marks, stop_inference, pre_inference_thread, unload_raised>>
    /\ UNCHANGED wVars
    /\ UNCHANGED <<opened, job, run>>

predict_put ==
    /\ fpc = "put"
    /\ ~WorkerHoldsCache
    /\ cache' = PredictPut(cache, filename, image_embedding)
    /\ recency' = Present(NotePut(recency, filename, image_embedding), cache')
    /\ evicted' = NoteEvicted(cache, cache')
    /\ fpc' = "check2"
    /\ run' = NoteFgPut(run)
    /\ UNCHANGED <<marks, stop_inference, pre_inference_thread, unload_raised,
                   filename, cv_image, image_embedding, result, logged>>
    /\ UNCHANGED wVars
    /\ UNCHANGED <<opened, job>>

\* if self.stop_inference: return ...  (before decoding)
predict_check_decode ==
    /\ fpc = "check2"
    /\ IF StopSeen(stop_inference)
       THEN ReturnEmpty
       ELSE /\ fpc' = "decode"
            /\ UNCHANGED <<filename, cv_image, image_embedding, result, logged>>
    /\ UNCHANGED <<cache, recency, evicted, marks, stop_inference, pre_inference_thread, unload_raised>>
    /\ UNCHANGED wVars
    /\ UNCHANGED <<opened, job, run>>

\* predict_masks and post_process; an exception is caught
predict_decode(ok) ==
    /\ fpc = "decode"
    /\ IF ok THEN Return("shapes") ELSE Caught("decode")
    /\ UNCHANGED <<cache, recency, evicted, marks, stop_inference, pre_inference_thread, unload_raised>>
    /\ UNCHANGED wVars
    /\ UNCHANGED <<opened, job, run>>

(* ------------------------------------------------------------------ *)
(* Lifecycle: unload, on_next_files_changed                             *)
(* ------------------------------------------------------------------ *)

unload ==
    /\ stop_inference' = TRUE
    /\ unload_raised' = (pre_inference_thread /\ ~ThreadHasQuit)
    /\ UNCHANGED <<cache, recency, evicted, marks, pre_inference_thread>>
    /\ UNCHANGED fgVars
    /\ UNCHANGED wVars
    /\ UNCHANGED <<opened, job, run>>

\* threading.Thread(target=self.preload_worker, args=(next_files,)).start()
StartThread(nf) ==
    /\ pre_inference_thread' = TRUE
    /\ wpc' = "start"
    /\ next_files' = nf
    /\ files' = <<>>
    /\ widx' = 0
    /\ wimage' = NoImage
    /\ wemb' = NoEmbedding
    /\ wputs' = 0
    /\ run' = NoteRunStart(run, recency)
    /\ Return("none")

on_next_files_changed(nf) ==
    /\ FgIdle
    /\ IF ~pre_inference_thread
       THEN StartThread(nf)
       ELSE IF ~ThreadHasIsRunning
            THEN /\ Return("AttributeError")
                 /\ UNCHANGED <<pre_inference_thread, run>>
                 /\ UNCHANGED wVars
            ELSE IF ~WorkerRunning
                 THEN StartThread(nf)
                 ELSE /\ Return("none")
                      /\ UNCHANGED <<pre_inference_thread, run>>
                      /\ UNCHANGED wVars
    /\ UNCHANGED <<cache, recency, evicted, marks, stop_inference, unload_raised>>
    /\ UNCHANGED <<opened, job>>

(* ------------------------------------------------------------------ *)
(* preload_worker, on its own thread                                    *)
(* ------------------------------------------------------------------ *)

\* next iteration of `for filename in files`, or the end of the function
NextFile ==
    IF widx + 1 > Len(files)
    THEN /\ wpc' = "done"
         /\ UNCHANGED widx
    ELSE /\ wpc' = "find"
         /\ widx' = widx + 1

worker_start ==
    /\ wpc = "start"
    /\ files' = Truncate(next_files)
    /\ IF Len(Truncate(next_files)) = 0
       THEN /\ wpc' = "done"
            /\ UNCHANGED widx
       ELSE /\ wpc' = "find"
            /\ widx' = 1
    /\ UNCHANGED <<cache, recency, evicted, marks, stop_inference, pre_inference_thread, unload_raised,
                   next_files, wimage, wemb, wputs>>
    /\ UNCHANGED fgVars
    /\ UNCHANGED <<opened, job, run>>

\* if self.image_embedding_cache.find(filename): continue
worker_find ==
    /\ wpc = "find"
    /\ LET r == WorkerFind(cache, files[widx])
       IN  /\ cache' = r.cache
           /\ evicted' = NoteEvicted(cache, r.cache)
           /\ IF r.found
              THEN NextFile
              ELSE /\ wpc' = "load"
                   /\ UNCHANGED widx
    /\ UNCHANGED <<recency, marks, stop_inference, pre_inference_thread, unload_raised,
                   next_files, files, wimage, wemb, wputs>>
    /\ UNCHANGED fgVars
    /\ UNCHANGED <<opened, job, run>>

\* cv_image = self.load_image_from_filename(filename); None: continue
worker_load ==
    /\ wpc = "load"
    /\ wimage' = LoadImage(files[widx])
    /\ IF LoadImage(files[widx]) = NoImage
       THEN NextFile
       ELSE /\ wpc' = "check"
            /\ UNCHANGED widx
    /\ UNCHANGED <<cache, recency, evicted, marks, stop_inference, pre_inference_thread, unload_raised,
                   next_files, files, wemb, wputs>>
    /\ UNCHANGED fgVars
    /\ UNCHANGED <<opened, job, run>>

\* if self.stop_inference: return
worker_check ==
    /\ wpc = "check"
    /\ wpc' = IF stop_inference THEN "done" ELSE "encode"
    /\ UNCHANGED <<cache, recency, evicted, marks, stop_inference, pre_inference_thread, unload_raised,
                   next_files, files, widx, wimage, wemb, wputs>>
    /\ UNCHANGED fgVars
    /\ UNCHANGED <<opened, job, run>>

\* image_embedding = self.model.encode(cv_image); nothing catches an
\* exception here, so it ends the thread
worker_encode ==
    /\ wpc = "encode"
    /\ IF EncodeRaises(wimage)
       THEN /\ wpc' = "died"
            /\ UNCHANGED wemb
       ELSE /\ wpc' = "put"
            /\ wemb' = Encode(wimage)
    /\ UNCHANGED <<cache, recency, evicted, marks, stop_inference, pre_inference_thread, unload_raised,
                   next_files, files, widx, wimage, wputs>>
    /\ UNCHANGED fgVars
    /\ UNCHANGED <<opened, job, run>>

worker_put ==
    /\ wpc = "put"
    /\ cache' = WorkerPut(cache, files[widx], wemb)
    /\ recency' = Present(NotePut(recency, files[widx], wemb), cache')
    /\ evicted' = NoteEvicted(cache, cache')
    /\ wputs' = wputs + 1
    /\ NextFile
    /\ UNCHANGED <<marks, stop_inference, pre_inference_thread, unload_raised,
                   next_files, files, wimage, wemb>>
    /\ UNCHANGED fgVars
    /\ UNCHANGED <<opened, job, run>>

(* ------------------------------------------------------------------ *)
(* Specification                                                        *)
(* ------------------------------------------------------------------ *)

\* files the user can ask a prediction on: those of `always`, and the next
\* of the n files past the preload budget
FileInputs(n, always) ==
    always \cup {f \in FgOnlyFiles(n) : f - preloaded_size = opened + 1}

\* images a caller passes with a filename: the file's own, and for the
\* shared file also no image or one of `others`
ImageInputs(f, others) ==
    IF f = SharedFile THEN {NoImage, f} \cup others ELSE {f}

NextOver(n, always, others, lists) ==
    \/ \E m \in MarksInputs : set_auto_labeling_marks(m)
    \/ \E f \in FileInputs(n, always) :
           \E img \in ImageInputs(f, others) : predict_call(img, f)
    \/ predict_check_miss
    \/ predict_encode
    \/ predict_put
    \/ predict_check_decode
    \/ \E ok \in BOOLEAN : predict_decode(ok)
    \/ unload
    \/ \E nf \in lists : on_next_files_changed(nf)
    \/ worker_start
    \/ worker_find
    \/ worker_load
    \/ worker_check
    \/ worker_encode
    \/ worker_put

\* a preload running while the user works on a few files
Next == NextOver(NumFgOnly, {SharedFile, CorruptFile}, {AltImage}, NextFilesInputs)

Spec == Init /\ [][Next]_vars

\* the user steps through more files than the cache holds
NextEvict == NextOver(NumFgEvict, {SharedFile}, {}, {ShortList})

SpecEvict == Init /\ [][NextEvict]_vars

(* ------------------------------------------------------------------ *)
(* Steps of the cache calls, as seen from outside                       *)
(* ------------------------------------------------------------------ *)

\* predict_shapes has just called get(filename')
FgGetStep == FgIdle /\ fpc' \in {"check1", "check2"}

\* predict_shapes has just called put(filename, image_embedding)
FgPutStep == fpc = "put" /\ fpc' = "check2"

\* the worker has just called put(files[widx], wemb)
WorkerPutStep == wpc = "put" /\ wputs' = wputs + 1

\* the worker has just called find(files[widx])
WorkerFindStep == wpc = "find" /\ (wpc' # "find" \/ widx' # widx)

\* the key whose last get/put is the oldest
LeastRecentlyUsed == recency[1][1]

\* what a put of (k, v) has to do to the cache
PutContract(k, v) ==
    /\ k \in Keys(cache')
    /\ ValueOf(cache', k) = v
    /\ (k \notin Keys(cache) /\ Len(cache) = cache_size)
           => /\ Keys(cache) \ Keys(cache') = {LeastRecentlyUsed}
              /\ Keys(cache') = (Keys(cache) \ {LeastRecentlyUsed}) \cup {k}
              /\ Len(cache') = cache_size
    /\ (k \in Keys(cache) \/ Len(cache) < cache_size)
           => Keys(cache') = Keys(cache) \cup {k}

(* ------------------------------------------------------------------ *)
(* Claims                                                               *)
(* ------------------------------------------------------------------ *)

\* C1: in every reachable state the embedding cache holds at most
\* cache_size (10) entries and at most one entry per filename key.
C1_CacheBounded ==
    /\ Len(cache) <= cache_size
    /\ Cardinality(Keys(cache)) = Len(cache)

\* C1 witness: the cache is full, both threads have inserted, and the last
\* put had to evict.
C1_Witness ==
    /\ Len(cache) = cache_size
    /\ wputs > 0
    /\ opened > 0
    /\ evicted # NoFilename

\* C2: a put of a key not in a full cache evicts exactly one entry, the one
\* whose last get/put is the oldest, and never the key just put; any put
\* leaves its key in the cache with the value put.
C2_PutEvictsLeastRecentlyUsed ==
    [][/\ FgPutStep => PutContract(filename, image_embedding)
       /\ WorkerPutStep => PutContract(files[widx], wemb)]_vars

\* C2 witness: the foreground's put of a new filename has just evicted the
\* least recently used entry of a full cache.
C2_Witness ==
    /\ fpc = "check2"
    /\ evicted # NoFilename
    /\ evicted \notin Keys(cache)
    /\ recency[Len(recency)] = <<filename, "put", image_embedding>>
    /\ Len(cache) = cache_size

\* C3: a get that finds its key returns the cached value and makes the key
\* the most recently used entry, so no eviction removes the key touched
\* last; a get of an absent key returns None and changes nothing.
C3_GetRefreshesRecency ==
    [][/\ (FgGetStep /\ filename' \in Keys(cache))
           => /\ image_embedding' = ValueOf(cache, filename')
              /\ Len(cache') = Len(cache)
              /\ Keys(cache') = Keys(cache)
              /\ cache'[Len(cache')] = <<filename', image_embedding'>>
       /\ (FgGetStep /\ filename' \notin Keys(cache))
           => /\ image_embedding' = NoEmbedding
              /\ cache' = cache
       /\ (Keys(cache) \ Keys(cache') # {} /\ recency # <<>>)
           => recency[Len(recency)][1] \in Keys(cache')]_vars

\* C3 witness: a get found the shared file in a full cache, and the put
\* that followed evicted another entry.
C3_Witness ==
    /\ evicted # NoFilename
    /\ Len(recency) = cache_size
    /\ recency[Len(recency) - 1][1] = SharedFile
    /\ recency[Len(recency) - 1][2] = "get"
    /\ recency[Len(recency)][2] = "put"
    /\ SharedFile \in Keys(cache)

\* C4: once the stop flag is set the worker makes no further insertion (an
\* item being encoded when the flag was set is not inserted; a run stopped
\* before its first insertion inserts nothing).
C4_NoInsertAfterStop ==
    [][stop_inference => ~WorkerPutStep]_vars

\* C5: on_next_files_changed while a preload run is active is a no-op: no
\* second worker, no error, no change of state.
C5_ReinvocationIsNoOp ==
    [][(WorkerRunning /\ \E nf \in NextFilesInputs : on_next_files_changed(nf))
          => /\ result' # "AttributeError"
             /\ UNCHANGED <<cache, stop_inference, pre_inference_thread>>
             /\ UNCHANGED wVars]_vars

\* C6: the cache holds exactly one entry per key, each with the value of the
\* latest put of that key by either thread, and a get that finds the key
\* returns that value.
C6_LastWriterWins ==
    [][/\ Cardinality(Keys(cache')) = Len(cache')
       /\ \A i \in DOMAIN cache' :
              cache'[i][2] = EntryOf(recency', cache'[i][1])[3]
       /\ (FgGetStep /\ filename' \in Touched(recency))
              => image_embedding' = EntryOf(recency, filename')[3]]_vars

\* C6 witness: the worker inserted every file of its budget, the shared file
\* among them, and the cache holds the value the foreground put for the
\* shared file afterwards.
C6_Witness ==
    /\ wpc = "done"
    /\ wputs = preloaded_size
    /\ files[1] = SharedFile
    /\ ValueOf(cache, SharedFile) = Encode(AltImage)
    /\ Cardinality({i \in DOMAIN cache : cache[i][1] = SharedFile}) = 1

\* C7: one preload run works on the first cache_size - 3 (7) filenames of
\* its list only, and so inserts at most cache_size - 3 entries.
C7_PreloadBudget ==
    /\ wputs <= cache_size - 3
    /\ Len(files) <= cache_size - 3
    /\ WorkerRunning /\ wpc # "start"
           => /\ widx \in 1..(cache_size - 3)
              /\ files[widx] = next_files[widx]

\* C7 witness: a run over a list longer than the budget is over and has
\* inserted exactly cache_size - 3 entries.
C7_Witness ==
    /\ wpc = "done"
    /\ Len(next_files) > cache_size - 3
    /\ wputs = cache_size - 3

\* C8: on a filename already cached the worker goes on to the next file:
\* no load, no encode, no put, and the cache with its order is as before.
C8_CachedFileIsSkipped ==
    [][(WorkerFindStep /\ files[widx] \in Keys(cache))
          => /\ cache' = cache
             /\ wputs' = wputs
             /\ wimage' = wimage
             /\ wemb' = wemb
             /\ wpc' \in {"find", "done"}
             /\ wpc' = "find" => widx' = widx + 1]_vars

\* C8 witness: the worker inserted the shared file and then skipped its
\* second occurrence in the list.
C8_Witness ==
    /\ files = FaultyList
    /\ widx = 3
    /\ wputs = 1
    /\ SharedFile \in Keys(cache)

\* C9: after the stop flag is set the worker starts no new image load and
\* no new encode.
C9_NoLoadAfterStop ==
    [][stop_inference
          => /\ ~(wpc # "load" /\ wpc' = "load")
             /\ ~(wpc # "encode" /\ wpc' = "encode")]_vars

\* C10: a file that cannot be loaded or encoded does not end the run: when
\* the run is over and the stop flag was never set, every file of the
\* budget that can be loaded and encoded is in the cache.
C10_FailureDoesNotAbortRun ==
    (wpc \in {"done", "died"} /\ ~stop_inference)
        => \A i \in DOMAIN files :
               (LoadImage(files[i]) # NoImage /\ ~EncodeRaises(LoadImage(files[i])))
                   => files[i] \in Keys(cache)

(* ------------------------------------------------------------------ *)
(* predict_shapes: failures, order of the steps, progress               *)
(* ------------------------------------------------------------------ *)

\* a step of predict_shapes past its entry
FgStep ==
    \/ predict_check_miss
    \/ predict_encode
    \/ predict_put
    \/ predict_check_decode
    \/ \E ok \in BOOLEAN : predict_decode(ok)

\* the foreground leaves the call it is in
FgLeaves(pc) == fpc = pc /\ fpc' # pc

\* C11: an exception raised by encode or by decode inside predict_shapes ends
\* the request with the empty result and never reaches the caller; a failed
\* encode inserts nothing, and between the initial get and the return the
\* request leaves the cache as it is.
C11_FailureYieldsEmptyResult ==
    [][/\ (fpc = "encode" /\ EncodeRaises(cv_image) /\ fpc' # fpc)
            => (fpc' = "returned" /\ logged' = "encode")
       /\ (logged' # "none" /\ logged' # logged)
            => /\ fpc \in {"encode", "decode"}
               /\ logged' = fpc
               /\ fpc' = "returned"
               /\ result' = "empty"
               /\ cache' = cache
       /\ (FgLeaves("check1") \/ FgLeaves("encode")) => cache' = cache
       /\ CorruptFile \notin Keys(cache')]_vars

C11_Witness ==
    /\ fpc = "returned"
    /\ logged = "encode"
    /\ result = "empty"
    /\ cache # <<>>

\* C12: decoding begins only once the embedding of the request is there:
\* the get returned it, or the request's own encode finished and its result
\* was put in the cache.
C12_DecodeAfterEmbedding ==
    [][/\ (fpc' = "decode" /\ fpc # "decode")
            => /\ fpc = "check2"
               /\ image_embedding # NoEmbedding
               /\ image_embedding' = image_embedding
       /\ (fpc' = "check2" /\ fpc # "check2")
            => \/ /\ FgGetStep
                  /\ filename' \in Keys(cache)
                  /\ image_embedding' = ValueOf(cache, filename')
                  /\ image_embedding' # NoEmbedding
               \/ /\ FgPutStep
                  /\ image_embedding = Encode(cv_image)
                  /\ image_embedding' = image_embedding
                  /\ filename \in Keys(cache')
                  /\ ValueOf(cache', filename) = image_embedding]_vars

C12_Witness ==
    /\ fpc = "decode"
    /\ filename \in Touched(recency)
    /\ EntryOf(recency, filename)[2] = "put"
    /\ EntryOf(recency, filename)[3] = image_embedding
    /\ image_embedding = Encode(cv_image)

\* the program with a foreground that is scheduled fairly and a worker that
\* may stop making steps anywhere
NextLive == NextOver(NumFgOnly, {SharedFile, CorruptFile}, {}, {FaultyList})

SpecLive == Init /\ [][NextLive]_vars /\ WF_vars(FgStep)

\* C13: predict_shapes never waits for the preload worker: every request
\* that was entered returns, wherever the worker stands and even if it makes
\* no further step.
C13_ForegroundReturns ==
    (fpc \notin {"idle", "returned"}) ~> (fpc = "returned")

C13_Witness ==
    /\ fpc = "returned"
    /\ result = "shapes"
    /\ wpc = "encode"

\* C14: when unload returns normally the cache holds no entries.
C14_UnloadEmptiesCache ==
    [][(unload /\ ~unload_raised') => cache' = <<>>]_vars

(* ------------------------------------------------------------------ *)
(* EdgeSAMONNX: prompt arrays, stability score, decoder, post-process;  *)
(* SegmentAnything2ONNX: prompt arrays                                  *)
(* ------------------------------------------------------------------ *)

\* marks in a prompt
MaxMarks == 2

\* candidate masks in one decoder output
MaxCands == 2

\* pixels of one candidate mask
NumPixels == 2

\* self.target_length, a constructor argument
target_length == 4

\* mask_threshold = 0.0
mask_threshold == 0

\* stability_score_offset = 1.0
stability_score_offset == 1

\* labels.append(2); labels.append(3)
TopLeftLabel == 2

BottomRightLabel == 3

\* integers up to 2^24 in magnitude are float32 values
Float32Exact == 16777216

Max(a, b) == IF a >= b THEN a ELSE b

SeqsUpTo(S, n) == UNION {[1..k -> S] : k \in 0..n}

\* a numpy array as its rows, or None
Array(rows) == [isNone |-> FALSE, rows |-> rows]

NoneValue == [isNone |-> TRUE, rows |-> <<>>]

RECURSIVE Ulp(_)
\* spacing of the float32 values around the non-negative integer x
Ulp(x) == IF x <= Float32Exact THEN 1 ELSE 2 * Ulp((x + 1) \div 2)

\* the multiple of q nearest to x >= 0, the even one when two are as near
RoundTo(x, q) ==
    LET lo == (x \div q) * q
    IN  IF 2 * (x - lo) < q THEN lo
        ELSE IF 2 * (x - lo) > q THEN lo + q
        ELSE IF (lo \div q) % 2 = 0 THEN lo ELSE lo + q

\* .astype(np.float32) of an integer
Float32(x) ==
    IF x < 0 THEN 0 - RoundTo(0 - x, Ulp(0 - x)) ELSE RoundTo(x, Ulp(x))

PointMark(x, y, l) == [type |-> "point", data |-> <<x, y>>, label |-> l]

RectMark(x1, y1, x2, y2) ==
    [type |-> "rectangle", data |-> <<x1, y1, x2, y2>>, label |-> 1]

\* a mark that is neither a point nor a rectangle
OtherMark == [type |-> "polygon", data |-> <<10, 20>>, label |-> 1]

MarkInputs ==
    {PointMark(10, 20, 1), PointMark(110, 220, 0),
     RectMark(10, 20, 110, 220), RectMark(0, 0, 10, 20), OtherMark}

\* the rows one mark of the loop appends to points
MarkPoints(mark) ==
    IF mark.type = "point" THEN <<mark.data>>
    ELSE IF mark.type = "rectangle"
         THEN << <<mark.data[1], mark.data[2]>>, <<mark.data[3], mark.data[4]>> >>
         ELSE <<>>

\* the two labels of a rectangle in the other order
MarkLabels_swapped(mark) ==
    IF mark.type = "point" THEN <<mark.label>>
    ELSE IF mark.type = "rectangle" THEN <<BottomRightLabel, TopLeftLabel>>
         ELSE <<>>

\* the entries one mark of the loop appends to labels
MarkLabels(mark) ==
    IF mark.type = "point" THEN <<mark.label>>
    ELSE IF mark.type = "rectangle" THEN <<TopLeftLabel, BottomRightLabel>>
         ELSE <<>>

RECURSIVE CollectPoints(_)
CollectPoints(prompt) ==
    IF prompt = <<>> THEN <<>>
    ELSE MarkPoints(Head(prompt)) \o CollectPoints(Tail(prompt))

RECURSIVE CollectLabels(_)
CollectLabels(prompt) ==
    IF prompt = <<>> THEN <<>>
    ELSE MarkLabels(Head(prompt)) \o CollectLabels(Tail(prompt))

\* EdgeSAMONNX.get_input_points: it raises nothing, an empty prompt gives two
\* empty arrays
get_input_points(prompt) ==
    [points |-> Array([i \in DOMAIN CollectPoints(prompt) |->
                          [c \in DOMAIN CollectPoints(prompt)[i] |->
                              Float32(CollectPoints(prompt)[i][c])]]),
     labels |-> Array([i \in DOMAIN CollectLabels(prompt) |->
                          Float32(CollectLabels(prompt)[i])])]

RECURSIVE Sam2Collect(_, _, _)
\* the loop of SegmentAnything2ONNX.predict_masks, then np.array of each list
Sam2Collect(prompt, points, labels) ==
    IF prompt = <<>> THEN [points |-> Array(points), labels |-> Array(labels)]
    ELSE LET mark == Head(prompt)
         IN  IF mark.type = "point"
             THEN Sam2Collect(Tail(prompt), Append(points, mark.data),
                              Append(labels, mark.label))
             ELSE IF mark.type = "rectangle"
                  THEN Sam2Collect(Tail(prompt),
                           Append(Append(points, <<mark.data[1], mark.data[2]>>),
                                  <<mark.data[3], mark.data[4]>>),
                           Append(Append(labels, 2), 3))
                  ELSE Sam2Collect(Tail(prompt), points, labels)

\* fraction bits of a Python float (IEEE 754 binary64)
FractionBits == 52

RECURSIVE Pow2(_)
Pow2(n) == IF n = 0 THEN 1 ELSE 2 * Pow2(n - 1)

RECURSIVE FloorLog2(_)
\* the exponent of the highest bit of n >= 1
FloorLog2(n) == IF n < 2 THEN 0 ELSE 1 + FloorLog2(n \div 2)

RECURSIVE BinadeOf(_, _)
\* the s with 2^s <= a / b < 2^(s + 1), for a, b > 0
BinadeOf(a, b) ==
    IF a >= 2 * b THEN BinadeOf(a, 2 * b) + 1
    ELSE IF a < b THEN BinadeOf(2 * a, b) - 1
    ELSE 0

RECURSIVE DoubleMod(_, _, _)
\* (r * 2^n) mod m
DoubleMod(r, n, m) ==
    IF n = 0 THEN r % m ELSE DoubleMod((2 * r) % m, n - 1, m)

\* scale = long_side_length * 1.0 / longest is the float nearest to the
\* quotient: with e = FractionBits - BinadeOf(long_side_length, longest) it is
\* long_side_length / longest + ScaleError / (longest * 2^e)
ScaleError(long_side_length, longest) ==
    LET r == DoubleMod(long_side_length,
                       FractionBits - BinadeOf(long_side_length, longest),
                       longest)
    IN  IF 2 * r > longest THEN longest - r ELSE 0 - r

\* int(x + 0.5) of the exact x = old * long_side_length / longest
HalfUp(old, long_side_length, longest) ==
    (2 * old * long_side_length + longest) \div (2 * longest)

\* old * scale is the float just below the exact product t - 0.5: the error
\* of scale is negative and more than half a float spacing survives the
\* rounding of the product
ProductBelowHalf(old, long_side_length, longest, t) ==
    LET s == BinadeOf(long_side_length, longest)
        below == FloorLog2(2 * t - 1) - 1
        d == ScaleError(long_side_length, longest)
    IN  /\ d < 0
        /\ 2 * old * (0 - d) * (IF s >= below THEN Pow2(s - below) ELSE 1)
             > longest * (IF s >= below THEN 1 ELSE Pow2(below - s))

\* int(old * scale), without the 0.5
ScaleRound_truncate(old, long_side_length, longest) ==
    (old * long_side_length) \div longest

\* int(old * scale + 0.5) in float arithmetic. Off the halves the float
\* errors are far smaller than the distance 1 / (2 * longest) to the next
\* half, and the result is HalfUp. On a half (exact product t - 0.5) the sum
\* old * scale + 0.5 is t, or the float just below t, which int() cuts to
\* t - 1; below 1 that sum rounds back up to 1.0.
ScaleRound(old, long_side_length, longest) ==
    LET twice == 2 * old * long_side_length
        t == HalfUp(old, long_side_length, longest)
    IN  IF twice % longest # 0 \/ (twice \div longest) % 2 = 0 THEN t
        ELSE IF t >= 2 /\ ProductBelowHalf(old, long_side_length, longest, t)
             THEN t - 1
             ELSE t

\* EdgeSAMONNX.get_preprocess_shape, for max(oldh, oldw) > 0
get_preprocess_shape(oldh, oldw, long_side_length) ==
    <<ScaleRound(oldh, long_side_length, Max(oldh, oldw)),
      ScaleRound(oldw, long_side_length, Max(oldh, oldw))>>

\* the exception apply_coords ends in, "none" when it returns
apply_coords(coords, original_size) ==
    IF Max(original_size[1], original_size[2]) = 0 THEN "ZeroDivisionError"
    ELSE IF coords = <<>> THEN "IndexError"
    ELSE IF original_size[2] = 0 \/ original_size[1] = 0 THEN "ZeroDivisionError"
    ELSE "none"

\* the pixels of mask above the value t
Above(mask, t) == {i \in DOMAIN mask : mask[i] > t}

\* intersections / unions of int32 counts: 0 / 0 is nan
Divide(n, d) == [nan |-> d = 0, num |-> n, den |-> d]

\* both threshold masks taken at the high threshold
calculate_stability_score_oneThreshold(masks, t, offset) ==
    [i \in DOMAIN masks |->
        Divide(Cardinality(Above(masks[i], t + offset)),
               Cardinality(Above(masks[i], t + offset)))]

\* EdgeSAMONNX.calculate_stability_score
calculate_stability_score(masks, t, offset) ==
    [i \in DOMAIN masks |->
        LET high_threshold_mask == Above(masks[i], t + offset)
            low_threshold_mask == Above(masks[i], t - offset)
        IN  Divide(Cardinality(high_threshold_mask \cap low_threshold_mask),
                   Cardinality(high_threshold_mask \cup low_threshold_mask))]

\* a > b on two scores that are numbers
Greater(a, b) == a.num * b.den > b.num * a.den

RECURSIVE ArgMaxFrom(_, _, _)
\* np.argmax scanning from index i with the best index so far: a nan counts
\* as the maximum, and the first of equal maxima is kept
ArgMaxFrom(scores, i, best) ==
    IF i > Len(scores) THEN best
    ELSE IF scores[best].nan THEN best
    ELSE IF scores[i].nan \/ Greater(scores[i], scores[best])
         THEN ArgMaxFrom(scores, i + 1, i)
         ELSE ArgMaxFrom(scores, i + 1, best)

ArgMax(scores) == ArgMaxFrom(scores, 2, 1)

\* shape of cv2.resize(src, (w, h)); cv2 raises on an empty source or target
Resize(shape, dsize) ==
    IF shape[1] = 0 \/ shape[2] = 0 \/ dsize[1] = 0 \/ dsize[2] = 0
    THEN [error |-> TRUE, shape |-> <<0, 0>>]
    ELSE [error |-> FALSE, shape |-> <<dsize[2], dsize[1]>>]

Min2(a, b) == IF a <= b THEN a ELSE b

\* shape of mask[..., : input_size[0], : input_size[1]]
Crop(shape, input_size) ==
    <<Min2(shape[1], input_size[1]), Min2(shape[2], input_size[2])>>

\* EdgeSAMONNX.postprocess_masks, on the shape of the mask
postprocess_masks(shape, input_size, original_size) ==
    LET upscaled == Resize(shape, <<target_length, target_length>>)
    IN  IF upscaled.error THEN upscaled
        ELSE Resize(Crop(upscaled.shape, input_size),
                    <<original_size[2], original_size[1]>>)

NoMask == [shape |-> <<0, 0>>, dtype |-> "none", candidate |-> 0]

\* a call of predict_masks before its first statement
NewJob(transform_prompt, prompt, original_size, masks) ==
    [transform_prompt |-> transform_prompt,
     prompt |-> prompt,
     original_size |-> original_size,
     masks |-> masks,
     stage |-> "input",
     point_coords |-> NoneValue,
     point_labels |-> NoneValue,
     sam2 |-> [done |-> FALSE, points |-> NoneValue, labels |-> NoneValue],
     error |-> "none",
     invoked |-> FALSE,
     scores |-> <<>>,
     max_score_index |-> 0,
     out |-> NoMask]

\* the exception leaves run_decoder
Raise(j, e) == [j EXCEPT !.stage = "done", !.error = e]

\* EdgeSAMONNX.run_decoder; the output of decoder_session.run is j.masks
RunDecoder(j) ==
    IF j.point_coords.isNone \/ j.point_labels.isNone
    THEN Raise(j, "ValueError")
    ELSE IF apply_coords(j.point_coords.rows, j.original_size) # "none"
    THEN Raise(j, apply_coords(j.point_coords.rows, j.original_size))
    ELSE LET scores == calculate_stability_score(j.masks, mask_threshold,
                                                 stability_score_offset)
             max_score_index == ArgMax(scores)
             input_size == get_preprocess_shape(j.original_size[1],
                               j.original_size[2], target_length)
             mask == postprocess_masks(<<1, NumPixels>>, input_size,
                                       j.original_size)
         IN  [j EXCEPT !.stage = "done",
                       !.invoked = TRUE,
                       !.scores = scores,
                       !.max_score_index = max_score_index,
                       !.error = IF mask.error THEN "cv2.error" ELSE "none",
                       !.out = IF mask.error THEN NoMask
                               ELSE [shape |-> mask.shape, dtype |-> "bool",
                                     candidate |-> max_score_index]]

modelVars == <<cache, marks, stop_inference, pre_inference_thread, unload_raised,
               fpc, filename, cv_image, image_embedding, result,
               wpc, next_files, files, widx, wimage, wemb, wputs, opened,
               recency, evicted, logged, run>>

\* EdgeSAMONNX.predict_masks up to the call of run_decoder
predict_masks ==
    /\ job.stage = "input"
    /\ job' = IF job.transform_prompt
              THEN [job EXCEPT !.stage = "prompt",
                               !.point_coords = get_input_points(job.prompt).points,
                               !.point_labels = get_input_points(job.prompt).labels]
              ELSE [job EXCEPT !.stage = "prompt",
                               !.point_coords = job.prompt[1],
                               !.point_labels = job.prompt[2]]
    /\ UNCHANGED modelVars

run_decoder ==
    /\ job.stage = "prompt"
    /\ job' = RunDecoder(job)
    /\ UNCHANGED modelVars

\* the prompt loop of SegmentAnything2ONNX.predict_masks on the same marks
sam2_predict_masks ==
    /\ job.stage # "none"
    /\ job.transform_prompt
    /\ ~job.sam2.done
    /\ job' = [job EXCEPT !.sam2 =
                  [done |-> TRUE,
                   points |-> Sam2Collect(job.prompt, <<>>, <<>>).points,
                   labels |-> Sam2Collect(job.prompt, <<>>, <<>>).labels]]
    /\ UNCHANGED modelVars

\* inputs: prompts, image sizes, decoder outputs
ExamplePrompt == <<RectMark(10, 20, 110, 220)>>

ExampleSize == <<100, 200>>

LogitInputs ==
    {mask_threshold - 2 * stability_score_offset, mask_threshold,
     mask_threshold + 2 * stability_score_offset}

MaskInputs == [1..NumPixels -> LogitInputs]

ExampleMasks == <<[i \in 1..NumPixels |-> mask_threshold]>>

MaxSide == 2 * target_length + 2

SizeInputs == ((1..MaxSide) \X (1..MaxSide)) \cup {ExampleSize}

CandidateInputs == SeqsUpTo(MaskInputs, MaxCands) \ {<<>>}

\* prompts handed over with transform_prompt=False
RawPromptInputs ==
    {<<NoneValue, NoneValue>>,
     <<NoneValue, Array(<<1>>)>>,
     <<Array(<< <<10, 20>> >>), NoneValue>>,
     <<Array(<< <<10, 20>> >>), Array(<<1>>)>>}

JobInputs ==
    {NewJob(TRUE, p, ExampleSize, ExampleMasks) : p \in SeqsUpTo(MarkInputs, MaxMarks)}
    \cup {NewJob(FALSE, p, ExampleSize, ExampleMasks) : p \in RawPromptInputs}
    \cup {NewJob(TRUE, ExamplePrompt, sz, ExampleMasks) : sz \in SizeInputs}
    \cup {NewJob(TRUE, ExamplePrompt, ExampleSize, ms) : ms \in CandidateInputs}

InitMasks ==
    /\ InitModel
    /\ run = NoRun
    /\ job \in JobInputs

NextMasks ==
    \/ predict_masks
    \/ run_decoder
    \/ sam2_predict_masks

SpecMasks == InitMasks /\ [][NextMasks]_vars

(* ------------------------------------------------------------------ *)
(* Properties of the prompt and mask functions                          *)
(* ------------------------------------------------------------------ *)

\* rows a mark stands for
Width(mark) ==
    IF mark.type = "point" THEN 1 ELSE IF mark.type = "rectangle" THEN 2 ELSE 0

RECURSIVE RowsBefore(_, _)
\* rows of the marks before the i-th
RowsBefore(prompt, i) ==
    IF i = 1 THEN 0 ELSE RowsBefore(prompt, i - 1) + Width(prompt[i - 1])

RowsInMarkOrder(prompt, points, labels) ==
    /\ Len(points) = RowsBefore(prompt, Len(prompt) + 1)
    /\ Len(labels) = Len(points)
    /\ \A i \in DOMAIN prompt :
          LET at == RowsBefore(prompt, i)
              mark == prompt[i]
          IN  /\ mark.type = "point"
                    => /\ points[at + 1] = mark.data
                       /\ labels[at + 1] = mark.label
              /\ mark.type = "rectangle"
                    => /\ points[at + 1] = <<mark.data[1], mark.data[2]>>
                       /\ labels[at + 1] = 2
                       /\ points[at + 2] = <<mark.data[3], mark.data[4]>>
                       /\ labels[at + 2] = 3

\* the edge_sam prompt arrays of the job are computed
EdgeNormalized == job.stage \in {"prompt", "done"} /\ job.transform_prompt

\* C15: the prompt arrays have equal length and follow the mark order: a point
\* mark gives the row (data, label), a rectangle mark the rows (top left, 2)
\* and (bottom right, 3); the loops of edge_sam and of sam2 give the same rows.
C15_PromptRows ==
    /\ EdgeNormalized
          => /\ ~job.point_coords.isNone
             /\ ~job.point_labels.isNone
             /\ RowsInMarkOrder(job.prompt, job.point_coords.rows,
                                job.point_labels.rows)
    /\ (job.stage # "none" /\ job.sam2.done)
          => /\ ~job.sam2.points.isNone
             /\ RowsInMarkOrder(job.prompt, job.sam2.points.rows,
                                job.sam2.labels.rows)
    /\ (EdgeNormalized /\ job.sam2.done)
          => /\ job.sam2.points = job.point_coords
             /\ job.sam2.labels = job.point_labels

C15_Witness ==
    /\ EdgeNormalized
    /\ job.sam2.done
    /\ job.prompt = <<PointMark(110, 220, 0), RectMark(10, 20, 110, 220)>>
    /\ job.point_coords.rows = << <<110, 220>>, <<10, 20>>, <<110, 220>> >>
    /\ job.point_labels.rows = <<0, 2, 3>>

\* C16: with an empty mark sequence the prompt normalizer fails, and with
\* coords or labels absent the decoder fails; either way the inference
\* decoder is not invoked and no mask is returned.
C16_PromptRequired ==
    /\ (EdgeNormalized /\ job.prompt = <<>>)
          => /\ job.error # "none"
             /\ ~job.invoked
             /\ job.out = NoMask
    /\ (job.stage = "done" /\ (job.point_coords.isNone \/ job.point_labels.isNone))
          => /\ job.error = "ValueError"
             /\ ~job.invoked
             /\ job.out = NoMask

\* run_decoder got past decoder_session.run and scored its candidates
Scored == job.stage = "done" /\ job.invoked

HighSet(mask) == {p \in DOMAIN mask : mask[p] > 1}

LowSet(mask) == {p \in DOMAIN mask : mask[p] > -1}

\* C17: the stability score of a candidate is |high /\ low| / |high \/ low|
\* for the masks thresholded at 0.0 + 1.0 and 0.0 - 1.0: it is 1 when the two
\* are equal and non-empty, 0 when high is empty and low is not.
C17_StabilityScore ==
    Scored =>
        \A i \in DOMAIN job.masks :
            LET high == HighSet(job.masks[i])
                low == LowSet(job.masks[i])
                score == job.scores[i]
            IN  /\ score.num = Cardinality(high \cap low)
                /\ score.den = Cardinality(high \cup low)
                /\ (high = low /\ high # {})
                      => (~score.nan /\ score.num = score.den /\ score.den > 0)
                /\ (high = {} /\ low # {})
                      => (~score.nan /\ score.num = 0 /\ score.den > 0)

C17_Witness ==
    /\ Scored
    /\ Len(job.masks) = 2
    /\ HighSet(job.masks[1]) = LowSet(job.masks[1])
    /\ HighSet(job.masks[1]) # {}
    /\ HighSet(job.masks[2]) = {}
    /\ LowSet(job.masks[2]) # {}
    /\ job.scores[1].num = job.scores[1].den
    /\ job.scores[2].num = 0

\* the number a score stands for, an empty union counting as zero
ScoreValue(score) == IF score.nan THEN Divide(0, 1) ELSE score

\* C18: the mask returned is the candidate with the maximum stability score,
\* the first of them in output order when several share the maximum.
C18_SelectsFirstMaximum ==
    (Scored /\ job.error = "none") =>
        LET k == job.out.candidate
        IN  /\ k \in DOMAIN job.masks
            /\ \A j \in DOMAIN job.masks :
                  /\ ~Greater(ScoreValue(job.scores[j]), ScoreValue(job.scores[k]))
                  /\ j < k => Greater(ScoreValue(job.scores[k]),
                                      ScoreValue(job.scores[j]))

\* C19: a candidate with an empty low-threshold set has the score zero, not
\* a nan, and is never selected over a candidate with a positive score.
C19_EmptyMaskScoresZero ==
    Scored =>
        \A i \in DOMAIN job.masks :
            LowSet(job.masks[i]) = {}
                => /\ ~job.scores[i].nan
                   /\ job.scores[i].num = 0
                   /\ job.max_score_index = i
                         => \A j \in DOMAIN job.masks :
                                job.scores[j].nan \/ job.scores[j].num = 0

\* C20: for an image of H x W pixels, H > 0 and W > 0, and a non-empty
\* prompt the prediction is a boolean mask of shape (H, W).
C20_MaskHasImageShape ==
    (/\ job.stage = "done"
     /\ job.transform_prompt
     /\ job.point_coords.rows # <<>>
     /\ job.original_size[1] > 0
     /\ job.original_size[2] > 0)
        => /\ job.error = "none"
           /\ job.out.dtype = "bool"
           /\ job.out.shape = job.original_size

(* ------------------------------------------------------------------ *)
(* EdgeSAMONNX.get_preprocess_shape and apply_coords called on their    *)
(* own                                                                  *)
(* ------------------------------------------------------------------ *)

\* the longest side h of the sizes (h, 2h) and (2h, h) tried
MaxHalfSide == 47

LengthInputs == 1..target_length

ResizeSizeInputs ==
    ((0..MaxSide) \X (0..MaxSide))
    \cup {<<h, 2 * h>> : h \in 1..MaxHalfSide}
    \cup {<<2 * h, h>> : h \in 1..MaxHalfSide}

ExampleCoords == << <<10, 20>> >>

\* a quotient of two integers
Ratio(n, d) == [num |-> n, den |-> d]

NewResizeJob(op, original_size, long_side_length) ==
    [stage |-> "input",
     op |-> op,
     original_size |-> original_size,
     long_side_length |-> long_side_length,
     coords |-> ExampleCoords,
     error |-> "none",
     shape |-> <<0, 0>>,
     scale |-> <<>>,
     out |-> <<>>]

ResizeJobInputs ==
    {NewResizeJob("get_preprocess_shape", sz, l) :
        sz \in ResizeSizeInputs, l \in LengthInputs}
    \cup {NewResizeJob("apply_coords", sz, target_length) : sz \in ResizeSizeInputs}

\* get_preprocess_shape(oldh, oldw, long_side_length): the division by
\* max(oldh, oldw) raises when both are 0
call_get_preprocess_shape ==
    /\ job.stage = "input"
    /\ job.op = "get_preprocess_shape"
    /\ job' = IF Max(job.original_size[1], job.original_size[2]) = 0
              THEN [job EXCEPT !.stage = "done", !.error = "ZeroDivisionError"]
              ELSE [job EXCEPT !.stage = "done",
                               !.shape = get_preprocess_shape(job.original_size[1],
                                             job.original_size[2],
                                             job.long_side_length)]
    /\ UNCHANGED modelVars

\* apply_coords(coords, original_size): coords[..., 0] * (new_w / old_w) and
\* coords[..., 1] * (new_h / old_h), as exact quotients
call_apply_coords ==
    /\ job.stage = "input"
    /\ job.op = "apply_coords"
    /\ job' = IF apply_coords(job.coords, job.original_size) # "none"
              THEN [job EXCEPT !.stage = "done",
                               !.error = apply_coords(job.coords, job.original_size)]
              ELSE LET old_h == job.original_size[1]
                       old_w == job.original_size[2]
                       new == get_preprocess_shape(old_h, old_w, target_length)
                   IN  [job EXCEPT !.stage = "done",
                                   !.shape = new,
                                   !.scale = <<Ratio(new[2], old_w), Ratio(new[1], old_h)>>,
                                   !.out = [i \in DOMAIN job.coords |->
                                              <<Ratio(job.coords[i][1] * new[2], old_w),
                                                Ratio(job.coords[i][2] * new[1], old_h)>>]]
    /\ UNCHANGED modelVars

InitResize ==
    /\ InitModel
    /\ run = NoRun
    /\ job \in ResizeJobInputs

NextResize ==
    \/ call_get_preprocess_shape
    \/ call_apply_coords

SpecResize == InitResize /\ [][NextResize]_vars

\* a call of get_preprocess_shape with positive arguments has returned
Resized ==
    /\ job.stage = "done"
    /\ job.op = "get_preprocess_shape"
    /\ job.original_size[1] > 0
    /\ job.original_size[2] > 0

Longest == Max(job.original_size[1], job.original_size[2])

\* twice the distance of new from old * L / longest is at most 1
WithinHalf(new, old) ==
    /\ 2 * (new * Longest - old * job.long_side_length) <= Longest
    /\ 2 * (old * job.long_side_length - new * Longest) <= Longest

\* C21 as stated: for h, w, L > 0 the longer side of the result is L and each
\* dimension is old * L / max(h, w) rounded half-up.
C21_RoundsHalfUp ==
    Resized =>
        /\ Max(job.shape[1], job.shape[2]) = job.long_side_length
        /\ job.shape[1] = HalfUp(job.original_size[1], job.long_side_length, Longest)
        /\ job.shape[2] = HalfUp(job.original_size[2], job.long_side_length, Longest)

\* C21: for h, w, L > 0 the longer side of the result is L and each dimension
\* differs from old * L / max(h, w) by at most 0.5; it is the half-up
\* rounding except when the exact value is a half, where it may be the
\* integer below.
C21_RoundsToNearest ==
    Resized =>
        /\ Max(job.shape[1], job.shape[2]) = job.long_side_length
        /\ \A i \in 1..2 :
              /\ WithinHalf(job.shape[i], job.original_size[i])
              /\ \/ job.shape[i] = HalfUp(job.original_size[i],
                                          job.long_side_length, Longest)
                 \/ /\ job.shape[i] + 1 = HalfUp(job.original_size[i],
                                                 job.long_side_length, Longest)
                    /\ 2 * job.original_size[i] * job.long_side_length
                          = (2 * job.shape[i] + 1) * Longest

C21_Witness ==
    /\ Resized
    /\ job.original_size = <<47, 94>>
    /\ job.long_side_length = 3
    /\ job.shape = <<1, 3>>
    /\ HalfUp(47, 3, 94) = 2

\* C22: for the original size (0, 0) the coordinate transformer fails with
\* an invalid-input error and divides by zero nowhere.
C22_ZeroSizeIsInvalidInput ==
    (job.stage = "done" /\ job.original_size = <<0, 0>>)
        => /\ job.error # "none"
           /\ job.error # "ZeroDivisionError"

\* C30: for h, w, L > 0 both dimensions of get_preprocess_shape are at least
\* 1, so the crop region of the post-processing is not empty and the scale
\* factors new / old of apply_coords are not zero.
C30_DimensionsAtLeastOne ==
    /\ Resized => (job.shape[1] >= 1 /\ job.shape[2] >= 1)
    /\ (/\ job.stage = "done"
        /\ job.op = "apply_coords"
        /\ job.original_size[1] > 0
        /\ job.original_size[2] > 0)
          => /\ job.error = "none"
             /\ job.scale[1].num # 0
             /\ job.scale[2].num # 0
             /\ Crop(<<target_length, target_length>>, job.shape)[1] >= 1
             /\ Crop(<<target_length, target_length>>, job.shape)[2] >= 1

(* ------------------------------------------------------------------ *)
(* SAM2ImageDecoder.prepare_points                                      *)
(* ------------------------------------------------------------------ *)

\* items in one batch
MaxBatch == 2

\* np.zeros(...)
PadCoord == 0

\* padding labels left at the value the coordinates are padded with
PadLabel_zero == PadCoord

\* np.ones(...) * -1
PadLabel == -1

\* self.encoder_input_size, (H, W) of the encoder input
encoder_input_size == <<8, 16>>

\* self.orig_im_size, (H, W) of the image
OrigSizeInputs == {<<100, 200>>, <<4, 4>>}

\* one prompt of an item: its coordinate row and its label
PointInputs == {<<<<10, 20>>, 1>>, <<<<110, 220>>, 0>>, <<<<0, 0>>, 1>>}

\* an item: up to MaxMarks prompts
ItemInputs == SeqsUpTo(PointInputs, MaxMarks)

CoordsOf(item) == [j \in DOMAIN item |-> item[j][1]]

LabelsOf(item) == [j \in DOMAIN item |-> item[j][2]]

RECURSIVE MaxLen(_)
\* max([coords.shape[0] for coords in point_coords])
MaxLen(items) ==
    IF Len(items) = 1 THEN Len(items[1])
    ELSE Max(Len(Head(items)), MaxLen(Tail(items)))

\* the row of an (n, 2) array after x / orig_w * enc_w and y / orig_h * enc_h,
\* as exact quotients
Normalize(row, orig_im_size) ==
    <<Ratio(row[1] * encoder_input_size[2], orig_im_size[2]),
      Ratio(row[2] * encoder_input_size[1], orig_im_size[1])>>

\* SAM2ImageDecoder.prepare_points: point_coords and point_labels are one
\* array each (batched = FALSE) or a list of arrays
prepare_points(point_coords, point_labels, batched, orig_im_size) ==
    LET max_num_points == MaxLen(point_coords)
        input_point_coords ==
            IF ~batched THEN point_coords
            ELSE [i \in DOMAIN point_coords |->
                    [j \in 1..max_num_points |->
                        IF j <= Len(point_coords[i]) THEN point_coords[i][j]
                        ELSE <<PadCoord, PadCoord>>]]
        input_point_labels ==
            IF ~batched THEN point_labels
            ELSE [i \in DOMAIN point_labels |->
                    [j \in 1..max_num_points |->
                        IF j <= Len(point_labels[i]) THEN point_labels[i][j]
                        ELSE PadLabel]]
    IN  [coords |-> [i \in DOMAIN input_point_coords |->
                        [j \in DOMAIN input_point_coords[i] |->
                            Normalize(input_point_coords[i][j], orig_im_size)]],
         labels |-> input_point_labels]

\* a call of prepare_points: items holds the one array of the unbatched
\* call as a batch of one
NewPointsJob(batched, items, orig_im_size) ==
    [stage |-> "input",
     batched |-> batched,
     items |-> items,
     orig_im_size |-> orig_im_size,
     input_point_coords |-> <<>>,
     input_point_labels |-> <<>>]

PointsJobInputs ==
    {NewPointsJob(TRUE, items, sz) :
        items \in SeqsUpTo(ItemInputs, MaxBatch) \ {<<>>}, sz \in OrigSizeInputs}
    \cup {NewPointsJob(FALSE, <<item>>, sz) :
        item \in ItemInputs, sz \in OrigSizeInputs}

call_prepare_points ==
    /\ job.stage = "input"
    /\ LET coords == [i \in DOMAIN job.items |-> CoordsOf(job.items[i])]
           labels == [i \in DOMAIN job.items |-> LabelsOf(job.items[i])]
           r == prepare_points(coords, labels, job.batched, job.orig_im_size)
       IN  job' = [job EXCEPT !.stage = "done",
                              !.input_point_coords = r.coords,
                              !.input_point_labels = r.labels]
    /\ UNCHANGED modelVars

InitPoints ==
    /\ InitModel
    /\ run = NoRun
    /\ job \in PointsJobInputs

NextPoints == call_prepare_points

SpecPoints == InitPoints /\ [][NextPoints]_vars

\* the longest prompt list of the batch
LongestItem ==
    CHOOSE n \in {Len(job.items[i]) : i \in DOMAIN job.items} :
        \A i \in DOMAIN job.items : Len(job.items[i]) <= n

\* C23: in a batched call every item is padded to the longest prompt list:
\* rows j <= n_i are the item's own coordinates (normalized) and labels in
\* order, rows j > n_i are the coordinate (0, 0) with label -1, after the
\* normalization too.
C23_BatchPadding ==
    (job.stage = "done" /\ job.batched) =>
        /\ Len(job.input_point_coords) = Len(job.items)
        /\ Len(job.input_point_labels) = Len(job.items)
        /\ \A i \in DOMAIN job.items :
              /\ Len(job.input_point_coords[i]) = LongestItem
              /\ Len(job.input_point_labels[i]) = LongestItem
              /\ \A j \in 1..LongestItem :
                    IF j <= Len(job.items[i])
                    THEN /\ job.input_point_coords[i][j]
                              = Normalize(job.items[i][j][1], job.orig_im_size)
                         /\ job.input_point_labels[i][j] = job.items[i][j][2]
                    ELSE /\ job.input_point_coords[i][j][1].num = 0
                         /\ job.input_point_coords[i][j][2].num = 0
                         /\ job.input_point_labels[i][j] = -1

C23_Witness ==
    /\ job.stage = "done"
    /\ job.batched
    /\ Len(job.items) = 2
    /\ Len(job.items[1]) = 2
    /\ Len(job.items[2]) = 1
    /\ job.input_point_labels[2] = <<job.items[2][1][2], -1>>
    /\ job.input_point_coords[2][2][1].num = 0
    /\ job.input_point_coords[1][2][1].num # 0

(* ------------------------------------------------------------------ *)
(* The preload budget and the entries used last                         *)
(* ------------------------------------------------------------------ *)

\* files the user opens before and while the preload runs
NumFgHeadroom == 4

\* a next_files list longer than the preload budget, of files the user
\* has never opened
HeadroomList == [i \in 1..MaxListLen |-> AltImage - i]

\* the history of the preload run is kept
TrackedRun ==
    [tracked |-> TRUE, started |-> FALSE, mru |-> {},
     fgGet |-> FALSE, fgPut |-> FALSE]

InitHeadroom ==
    /\ InitModel
    /\ job = NoJob
    /\ run = TrackedRun

\* the user steps through some files, then the preload of the next ones
\* starts, and the user only goes back to the first file meanwhile
NextHeadroom ==
    NextOver(IF pre_inference_thread THEN 0 ELSE NumFgHeadroom,
             {SharedFile}, {}, {HeadroomList})

SpecHeadroom == InitHeadroom /\ [][NextHeadroom]_vars

\* the keys used last when the run started are still in the cache
RecentKept == run.mru \subseteq Keys(cache)

\* C24, as stated: during a preload run with no foreground put, the 3
\* entries used last when the run started stay in the cache (a foreground
\* get of an older entry is allowed, and breaks it)
C24_HeadroomWithoutFgPut ==
    (run.tracked /\ run.started /\ ~run.fgPut) => RecentKept

\* C24, amended: during a preload run with no foreground cache access at
\* all, neither a put nor a get that finds an entry, the 3 entries used
\* last when the run started stay in the cache
C24_HeadroomWithoutFgAccess ==
    (run.tracked /\ run.started /\ ~run.fgPut /\ ~run.fgGet) => RecentKept

\* a finished run that used its whole budget on a full cache, evicting with
\* its last put, the foreground idle meanwhile, and 3 entries to keep
C24_Witness ==
    /\ run.tracked /\ run.started /\ ~run.fgPut /\ ~run.fgGet
    /\ wpc = "done"
    /\ wputs = preloaded_size
    /\ Len(cache) = cache_size
    /\ evicted # NoFilename
    /\ Cardinality(run.mru) = 3
    /\ RecentKept

(* ------------------------------------------------------------------ *)
(* The stop flag                                                        *)
(* ------------------------------------------------------------------ *)

\* C25: the stop flag is false after construction, only unload sets it and
\* nothing resets it; with the flag set, a request that enters predict_shapes
\* goes to one of the two flag checks with the cache holding the same keys,
\* and from either check it returns the empty result without encoding,
\* decoding, logging a failure or changing the cache, also on a hit.
C25_StopFlagMonotonic ==
    /\ ~stop_inference
    /\ [][/\ stop_inference => stop_inference'
          /\ (stop_inference' # stop_inference) => unload
          /\ (stop_inference /\ FgIdle /\ ~FgIdle')
               => /\ fpc' \in {"check1", "check2"}
                  /\ Keys(cache') = Keys(cache)
          /\ (stop_inference /\ fpc \in {"check1", "check2"} /\ fpc' # fpc)
               => /\ fpc' = "returned"
                  /\ result' = "empty"
                  /\ logged' = "none"
                  /\ cache' = cache
          /\ (stop_inference /\ fpc' # fpc /\ fpc' \in {"encode", "decode"})
               => FALSE]_vars

\* with the flag set, a request whose get found the cached embedding stands
\* before the check that sends it back
C25_Witness ==
    /\ stop_inference
    /\ fpc = "check2"
    /\ filename \in Keys(cache)
    /\ image_embedding = ValueOf(cache, filename)
    /\ recency[Len(recency)] = <<filename, "get", image_embedding>>

(* ------------------------------------------------------------------ *)
(* The two threads and one filename                                     *)
(* ------------------------------------------------------------------ *)

\* both threads are inside encode for the same filename
EncodedByBoth ==
    /\ fpc = "encode"
    /\ wpc = "encode"
    /\ filename = files[widx]

MovedToEnd(c, k) ==
    Append(SelectSeq(c, LAMBDA e : e[1] # k), <<k, ValueOf(c, k)>>)

\* a request with an image and marks whose filename is cached: the get hands
\* out the cached embedding and moves the entry to the most recently used
\* end; the request then passes the flag check and decodes with that
\* embedding, encoding nothing and putting nothing
HitPath ==
    /\ (FgIdle /\ fpc' = "check2")
         => /\ filename' \in Keys(cache)
            /\ image_embedding' = ValueOf(cache, filename')
            /\ cache' = MovedToEnd(cache, filename')
    /\ (fpc' = "check2" /\ fpc # "check2") => (FgIdle \/ fpc = "put")
    /\ FgLeaves("check2")
         => /\ cache' = cache
            /\ fpc' = "decode" \/ (stop_inference /\ fpc' = "returned")
            /\ fpc' = "decode" => image_embedding' = image_embedding
    /\ FgLeaves("decode") => cache' = cache

\* a request whose filename is not cached, up to encode
MissPath ==
    /\ (FgIdle /\ fpc' = "check1")
         => /\ filename' \notin Keys(cache)
            /\ cache' = cache
    /\ (fpc' = "encode" /\ fpc # "encode") => (fpc = "check1" /\ ~stop_inference)
    /\ (FgLeaves("check1") /\ ~stop_inference)
         => /\ fpc' = "encode"
            /\ cache' = cache
    /\ (fpc' = "put" /\ fpc # "put")
         => /\ fpc = "encode"
            /\ image_embedding' = Encode(cv_image)
            /\ cache' = cache
    /\ FgLeaves("put")
         => /\ fpc' = "check2"
            /\ filename \in Keys(cache')
            /\ ValueOf(cache', filename) = image_embedding
            /\ cache'[Len(cache')][1] = filename

\* C27, as stated: on a hit no encode and no put, the entry becomes the most
\* recently used and the request decodes with the cached embedding; on a
\* miss with the stop flag unset the one encode is always followed by the
\* one put of that filename.
C27_MissEncodesAndPuts ==
    [][/\ HitPath
       /\ MissPath
       /\ FgLeaves("encode") => fpc' = "put"]_vars

\* C27, amended: as above, but the put follows the encode only when encode
\* returns; when encode raises, the request ends with the empty result and
\* the cache as it was.
C27_MissPutsUnlessEncodeRaises ==
    [][/\ HitPath
       /\ MissPath
       /\ FgLeaves("encode")
            => IF EncodeRaises(cv_image)
               THEN fpc' = "returned" /\ result' = "empty" /\ cache' = cache
               ELSE fpc' = "put"]_vars

\* a hit on an entry that was not the most recently used, now decoding
C27_Witness ==
    /\ fpc = "decode"
    /\ ~stop_inference
    /\ Len(cache) >= 2
    /\ cache[Len(cache)] = <<filename, image_embedding>>
    /\ recency[Len(recency)] = <<filename, "get", image_embedding>>
    /\ recency[Len(recency) - 1][2] = "put"

(* ------------------------------------------------------------------ *)
(* unload with a thread                                                 *)
(* ------------------------------------------------------------------ *)

\* C28: unload returns without raising and leaves the stop flag set, whether
\* or not a preload thread was started, is running or has finished.
C28_UnloadCompletes ==
    [][unload => (stop_inference' /\ ~unload_raised')]_vars

(* ------------------------------------------------------------------ *)
(* The embedding a request decodes with                                 *)
(* ------------------------------------------------------------------ *)

====
